---- MODULE Spec2Model ----
(***************************************************************************)
(* Model of Excel2bSDD_converter.py: the row mapper (jsonify), the null    *)
(* pruner (clean_nones), the linker and pipeline driver (excel2bsdd) and   *)
(* the command-line entry point (__main__).                                *)
(*                                                                         *)
(* Python values are tagged pairs <<tag, payload>>.  A Python dict is the  *)
(* ordered sequence of its <<key, value>> items, a str the sequence of its *)
(* characters.  The child lists of a Classification or Property are        *)
(* mutable and may be aliased, so they live in `heap` and a dict holds a   *)
(* reference Ref(address) to them.                                         *)
(***************************************************************************)
EXTENDS Naturals, Sequences, FiniteSets, TLC

\* ---------------------------------------------------------------- bounds
MaxDomainRows == 2   \* rows of the Domain sheet
MaxParentRows == 2   \* rows of Classification + Material + Property sheets
MaxChildRows == 2    \* rows of the four child sheets together
MaxStrLen == 4       \* characters of an enumerated string cell
MaxNodes == 5        \* nodes of an enumerated nested value

\* ---------------------------------------------------------------- values
None == <<"null", 0>>
NaN == <<"nan", 0>>
Time == <<"time", 0>>
Timestamp == <<"timestamp", 0>>
Num(n) == <<"num", n>>
Str(s) == <<"str", s>>
List(s) == <<"list", s>>
Tuple(s) == <<"tuple", s>>
Dict(items) == <<"dict", items>>
Ref(a) == <<"ref", a>>

IsStr(v) == v[1] = "str"
IsList(v) == v[1] = "list"
IsDict(v) == v[1] = "dict"
IsRef(v) == v[1] = "ref"

\* Sequences over S of length at most n.
SeqsUpTo(S, n) == UNION {[1..k -> S] : k \in 0..n}

RECURSIVE Concat(_)
Concat(ss) == IF ss = <<>> THEN <<>> ELSE Head(ss) \o Concat(Tail(ss))

\* ------------------------------------------------------- dict operations
\* key in d
DHas(d, k) == \E i \in 1..Len(d[2]) : d[2][i][1] = k
\* d[key]
DGet(d, k) == d[2][CHOOSE i \in 1..Len(d[2]) : d[2][i][1] = k][2]
\* d[key] = v : an existing key keeps its position, a new one goes last
DSet(d, k, v) ==
    IF DHas(d, k)
    THEN Dict([i \in 1..Len(d[2]) |-> IF d[2][i][1] = k THEN <<k, v>> ELSE d[2][i]])
    ELSE Dict(Append(d[2], <<k, v>>))
\* d.pop(key)
DPop(d, k) == Dict(SelectSeq(d[2], LAMBDA it : it[1] # k))
\* list(d) : iterating a dict yields its keys
DKeys(d) == [i \in 1..Len(d[2]) |-> d[2][i][1]]

\* ---------------------------------------------------------- literal_eval
Digits == {"0", "1", "2", "3", "4", "5", "6", "7", "8", "9"}
DigitVal(c) ==
    CASE c = "0" -> 0 [] c = "1" -> 1 [] c = "2" -> 2 [] c = "3" -> 3
      [] c = "4" -> 4 [] c = "5" -> 5 [] c = "6" -> 6 [] c = "7" -> 7
      [] c = "8" -> 8 [] c = "9" -> 9
Spaces == {" "}
Punct == {"[", "]", ","}
Bad == <<"bad", 0>>

\* End (exclusive) of the run of digits of s that starts at p.
RECURSIVE DigitsEnd(_, _)
DigitsEnd(s, p) ==
    IF p <= Len(s) /\ s[p] \in Digits THEN DigitsEnd(s, p + 1) ELSE p

RECURSIVE DecimalValue(_, _, _, _)
DecimalValue(s, p, q, acc) ==
    IF p >= q THEN acc ELSE DecimalValue(s, p + 1, q, acc * 10 + DigitVal(s[p]))

\* The tokenizer: blanks separate tokens, a run of digits is a number
\* (a leading zero is allowed only in a run of zeros, and a letter may not
\* follow the digits), brackets and commas stand for themselves.  A name is
\* never part of a literal here (the cells hold no True, False or None),
\* so a letter makes the text no literal.
RECURSIVE Tokenize(_, _, _), TokenizeNumber(_, _, _, _)
Tokenize(s, p, acc) ==
    IF p > Len(s) THEN acc
    ELSE IF s[p] \in Spaces THEN Tokenize(s, p + 1, acc)
    ELSE IF s[p] \in Punct THEN Tokenize(s, p + 1, Append(acc, <<s[p], 0>>))
    ELSE IF s[p] \in Digits THEN TokenizeNumber(s, p, DigitsEnd(s, p), acc)
    ELSE <<Bad>>
\* The digits s[p..q-1].
TokenizeNumber(s, p, q, acc) ==
    IF (q <= Len(s) /\ s[q] \notin Spaces \cup Punct)
       \/ (s[p] = "0" /\ q > p + 1 /\ ~(\A j \in p..(q - 1) : s[j] = "0"))
    THEN <<Bad>>
    ELSE Tokenize(s, q, Append(acc, Num(DecimalValue(s, p, q, 0))))

NoParse(p) == [ok |-> FALSE, val |-> None, pos |-> p]

\* The parser, on tokens: an element is a number or a bracketed display of
\* elements (a trailing comma allowed); an element followed by "[" is a
\* subscript, which is no literal.
RECURSIVE ParseElt(_, _), ParseAtom(_, _), ParseItems(_, _, _), AfterItem(_, _, _)
\* r is the atom parsed: a "[" after it makes it a subscript.
NoTrailer(t, r) ==
    IF r.ok /\ r.pos <= Len(t) /\ t[r.pos][1] = "[" THEN NoParse(r.pos) ELSE r
ParseElt(t, p) == IF p > Len(t) THEN NoParse(p) ELSE NoTrailer(t, ParseAtom(t, p))
ParseAtom(t, p) ==
    IF t[p][1] = "num" THEN [ok |-> TRUE, val |-> t[p], pos |-> p + 1]
    ELSE IF t[p][1] = "[" THEN ParseItems(t, p + 1, <<>>)
    ELSE NoParse(p)
ParseItems(t, p, acc) ==
    IF p > Len(t) THEN NoParse(p)
    ELSE IF t[p][1] = "]" THEN [ok |-> TRUE, val |-> List(acc), pos |-> p + 1]
    ELSE AfterItem(t, acc, ParseElt(t, p))
\* e is the item parsed: a comma or the closing bracket must follow.
AfterItem(t, acc, e) ==
    IF ~e.ok \/ e.pos > Len(t) THEN NoParse(e.pos)
    ELSE IF t[e.pos][1] = "," THEN ParseItems(t, e.pos + 1, Append(acc, e.val))
    ELSE IF t[e.pos][1] = "]"
         THEN [ok |-> TRUE, val |-> List(Append(acc, e.val)), pos |-> e.pos + 1]
    ELSE NoParse(e.pos)

\* The whole text: one element, or elements separated by commas (a tuple).
RECURSIVE ParseTop(_, _, _), AfterTop(_, _, _)
ParseTop(t, p, acc) == AfterTop(t, acc, ParseElt(t, p))
AfterTop(t, acc, e) ==
    IF ~e.ok THEN [ok |-> FALSE, val |-> None]
    ELSE IF e.pos > Len(t)
         THEN [ok |-> TRUE, val |-> IF acc = <<>> THEN e.val ELSE Tuple(Append(acc, e.val))]
    ELSE IF t[e.pos][1] # "," THEN [ok |-> FALSE, val |-> None]
    ELSE IF e.pos = Len(t) THEN [ok |-> TRUE, val |-> Tuple(Append(acc, e.val))]
    ELSE ParseTop(t, e.pos + 1, Append(acc, e.val))

ParseTokens(t) ==
    IF t = <<>> \/ (\E i \in 1..Len(t) : t[i] = Bad)
    THEN [ok |-> FALSE, val |-> None]
    ELSE ParseTop(t, 1, <<>>)

\* ast.literal_eval(text): leading blanks are stripped, the rest is parsed
\* as one expression and must be a literal; ok = FALSE is the SyntaxError or
\* ValueError it raises.
literal_eval(s) == ParseTokens(Tokenize(s, 1, <<>>))

\* "c" in text
Contains(s, c) == \E i \in 1..Len(s) : s[i] = c

\* ---------------------------------------------------------------- jsonify
IsoFormat == <<"2", "0", "2", "2", "-", "0", "5", "-", "1", "2", "T", "0", "0", ":", "0", "0", ":", "0", "0">>

\* dataframe.astype(object).replace(np.nan, None), for one cell
ReplaceNaN(cell) == IF cell = NaN THEN None ELSE cell

\* content = literal_eval(column_data); if isinstance(content, list): ...
CoerceLiteral(column_data, content) ==
    IF ~content.ok THEN [ok |-> FALSE, val |-> None]
    ELSE IF IsList(content.val) THEN [ok |-> TRUE, val |-> content.val]
    ELSE [ok |-> TRUE, val |-> column_data]

\* The conversion of one cell of a recognized column.
Coerce(column_data) ==
    IF column_data = Timestamp THEN [ok |-> TRUE, val |-> Str(IsoFormat)]
    ELSE IF IsStr(column_data)
    THEN IF Contains(column_data[2], "[") /\ Contains(column_data[2], "]")
         THEN CoerceLiteral(column_data, literal_eval(column_data[2]))
         ELSE [ok |-> TRUE, val |-> column_data]
    ELSE [ok |-> TRUE, val |-> column_data]

\* copy.deepcopy of a template: every list the template refers to is copied
\* into a fresh heap cell.
RECURSIVE deepcopy_items(_, _, _)
deepcopy_items(items, h, acc) ==
    IF items = <<>> THEN [obj |-> Dict(acc), heap |-> h]
    ELSE IF IsRef(items[1][2])
    THEN deepcopy_items(Tail(items), Append(h, h[items[1][2][2]]),
                        Append(acc, <<items[1][1], Ref(Len(h) + 1)>>))
    ELSE deepcopy_items(Tail(items), h, Append(acc, items[1]))

\* deepcopy as copy.copy: the lists of the template are shared.
copy_shallow(json_part, h) == [obj |-> json_part, heap |-> h]

deepcopy(json_part, h) == deepcopy_items(json_part[2], h, <<>>)

\* The inner loop of jsonify over the columns of one row.
RECURSIVE MapRow(_, _), MapCell(_, _, _)
MapRow(row, new_part) ==
    IF row = <<>> THEN [ok |-> TRUE, obj |-> new_part]
    ELSE IF DHas(new_part, row[1][1])
    THEN MapCell(row, new_part, Coerce(ReplaceNaN(row[1][2])))
    ELSE MapRow(Tail(row), new_part)
\* new_part[column_name] = column_data, c the converted cell
MapCell(row, new_part, c) ==
    IF ~c.ok THEN [ok |-> FALSE, obj |-> new_part]
    ELSE MapRow(Tail(row), DSet(new_part, row[1][1], c.val))

RECURSIVE jsonify_rows(_, _, _, _), jsonify_row(_, _, _, _), jsonify_append(_, _, _, _, _)
jsonify_rows(rows, json_part, h, jsons) ==
    IF rows = <<>> THEN [ok |-> TRUE, jsons |-> jsons, heap |-> h]
    ELSE jsonify_row(rows, json_part, jsons, deepcopy(json_part, h))
\* cp: new_part = deepcopy(json_part)
jsonify_row(rows, json_part, jsons, cp) ==
    jsonify_append(rows, json_part, jsons, cp.heap, MapRow(rows[1], cp.obj))
\* r: the row mapped; jsons.append(new_part)
jsonify_append(rows, json_part, jsons, h, r) ==
    IF ~r.ok THEN [ok |-> FALSE, jsons |-> jsons, heap |-> h]
    ELSE jsonify_rows(Tail(rows), json_part, h, Append(jsons, r.obj))

\* jsonify(dataframe, json_part) on heap h: the list of mapped rows and the
\* heap with the copies made; ok = FALSE when literal_eval raised.
jsonify(dataframe, json_part, h) == jsonify_rows(dataframe, json_part, h, <<>>)

\* ------------------------------------------------------------ clean_nones
\* ------------------------------------------------------------ clean_nones
\* clean_nones without its filter on the elements of a list.
RECURSIVE clean_nones_lists_kept(_)
clean_nones_lists_kept(value) ==
    IF IsList(value)
    THEN List([i \in 1..Len(value[2]) |-> clean_nones_lists_kept(value[2][i])])
    ELSE IF IsDict(value)
    THEN LET kept == SelectSeq(value[2], LAMBDA it : it[2] # None)
         IN  Dict([i \in 1..Len(kept) |-> <<kept[i][1], clean_nones_lists_kept(kept[i][2])>>])
    ELSE value

RECURSIVE clean_nones(_)
clean_nones(value) ==
    IF IsList(value)
    THEN LET kept == SelectSeq(value[2], LAMBDA x : x # None)
         IN  List([i \in 1..Len(kept) |-> clean_nones(kept[i])])
    ELSE IF IsDict(value)
    THEN LET kept == SelectSeq(value[2], LAMBDA it : it[2] # None)
         IN  Dict([i \in 1..Len(kept) |-> <<kept[i][1], clean_nones(kept[i][2])>>])
    ELSE value

\* -------------------------------------------------------------- templates
\* JSON_templates: the default object of each entity kind.  The child lists
\* are the module-level list objects at heap addresses 1..5.
Domain == Dict(<< <<"DomainCode", None>>, <<"DomainName", None>> >>)
Classification ==
    Dict(<< <<"Code", None>>, <<"Name", None>>,
            <<"ClassificationProperties", Ref(1)>>,
            <<"ClassificationRelations", Ref(2)>>,
            <<"AllowedValues", Ref(3)>> >>)
Material == Dict(<< <<"Code", None>>, <<"Name", None>> >>)
Property ==
    Dict(<< <<"Code", None>>, <<"AllowedValues", Ref(4)>>,
            <<"PropertyRelations", Ref(5)>> >>)
ClassificationProperty ==
    Dict(<< <<"(Origin Classification Code)", None>>, <<"PropertyCode", None>> >>)
ClassificationRelation ==
    Dict(<< <<"(Origin Classification Code)", None>>, <<"RelationType", None>> >>)
AllowedValue ==
    Dict(<< <<"(Origin Property Code OR ClassificationProperty Code)", None>>,
            <<"Value", None>> >>)
PropertyRelation ==
    Dict(<< <<"(Origin Property)", None>>, <<"RelationType", None>> >>)
TemplateRefs == 1..5
TemplateHeap == [a \in TemplateRefs |-> <<>>]

VARIABLES
    argv,        \* sys.argv
    fs,          \* the files: path -> content
    pc,          \* position of the run
    error,       \* <<exception, position>> of the uncaught exception
    EXCEL_PATH, JSON_PATH, WITH_NULLS,
    excel,       \* the workbook: where it was read from and the sheets read
    heap,        \* address -> list
    bsdd_data,   \* excel2bsdd's tree under construction
    cls_props, cls_rels, prop_vals, prop_rels,
    idx,         \* position of the running linking loop
    tree,        \* __main__'s bsdd_data
    cell_df, cell_out, cell_pc,          \* one jsonify call on one cell
    value, pruned, pruned2, clean_pc     \* clean_nones on one value

pvars == <<argv, fs, pc, error, EXCEL_PATH, JSON_PATH, WITH_NULLS, excel, heap,
           bsdd_data, cls_props, cls_rels, prop_vals, prop_rels, idx, tree>>
cvars == <<cell_df, cell_out, cell_pc>>
vvars == <<value, pruned, pruned2, clean_pc>>
vars == <<pvars, cvars, vvars>>

NoError == <<"none", "">>
NoExcel ==
    [src |-> "", domain |-> <<>>, classification |-> <<>>, material |-> <<>>,
     property |-> <<>>, classificationproperty |-> <<>>,
     classificationrelation |-> <<>>, propertyvalue |-> <<>>,
     propertyrelation |-> <<>>]

IdlePipeline ==
    /\ argv = <<>> /\ fs = <<>> /\ pc = "idle" /\ error = NoError
    /\ EXCEL_PATH = "" /\ JSON_PATH = "" /\ WITH_NULLS = ""
    /\ excel = NoExcel /\ heap = TemplateHeap /\ bsdd_data = Dict(<<>>)
    /\ cls_props = <<>> /\ cls_rels = <<>> /\ prop_vals = <<>> /\ prop_rels = <<>>
    /\ idx = 0 /\ tree = None
IdleCell == cell_df = <<>> /\ cell_out = [ok |-> TRUE, jsons |-> <<>>] /\ cell_pc = "idle"
IdleClean == value = None /\ pruned = None /\ pruned2 = None /\ clean_pc = "idle"

\* ------------------------------------------------------------ the files
Script == "conv.py"
Source == "in.xlsx"
Dest == "out.json"
Workbook == <<"xlsx", 0>>
PySource == <<"py", 0>>
Absent == <<"absent", 0>>
Empty == <<"empty", 0>>
Partial == <<"partial", 0>>
Json(t) == <<"json", t>>

\* argv[i], counted from 0 as sys.argv is
Argv(i) == argv[i + 1]
\* bool(text)
Truthy(s) == s # ""

\* ----------------------------------------------------------- the workbook
Chr == <<"1", "2", "3", "4", "5", "6", "7", "8", "9">>
ClsCodes == {<<"A", "1">>, <<"A", "2">>}
PropCodes == {<<"P", "1">>, <<"P", "2">>}
BadLiteral == Str(<<"[", "m", "]">>)
DomainCells == {NaN, Time, BadLiteral}

\* The Domain sheet: n rows, told apart by DomainCode; "Remarks" is a column
\* the template does not know.
DomainSheets ==
    {[k \in 1..n |-> << <<"DomainCode", Str(<<"D", Chr[k]>>)>>, <<"DomainName", c>>,
                        <<"Remarks", c>> >>]
        : n \in 0..MaxDomainRows, c \in DomainCells}
\* Classification and Property sheets: any Codes, repeated ones included.
ClassificationSheets(n) ==
    {[k \in 1..Len(codes) |-> << <<"Code", Str(codes[k])>>, <<"Name", NaN>> >>]
        : codes \in SeqsUpTo(ClsCodes, n)}
MaterialSheets(n) ==
    {[k \in 1..m |-> << <<"Code", Str(<<"M", Chr[k]>>)>>, <<"Name", NaN>> >>] : m \in 0..n}
PropertySheets(n) ==
    {[k \in 1..Len(codes) |-> << <<"Code", Str(codes[k])>> >>]
        : codes \in SeqsUpTo(PropCodes, n)}
\* A child sheet: any origin codes; the data column numbers the rows.
ChildSheets(originCol, dataCol, codes, n) ==
    {[k \in 1..Len(origins) |-> << <<originCol, Str(origins[k])>>, <<dataCol, Num(k)>> >>]
        : origins \in SeqsUpTo(codes, n)}

ParentRowsLeft == MaxParentRows - (Len(excel.classification) + Len(excel.material))
ChildRowsLeft ==
    MaxChildRows - (Len(excel.classificationproperty) + Len(excel.classificationrelation)
                    + Len(excel.propertyvalue))

\* ------------------------------------------------------------- excel2bsdd
\* Find with a default: next(..., coll[0]).
Find_or_first(coll, related) ==
    IF \E j \in 1..Len(coll) : DGet(coll[j], "Code") = related
    THEN CHOOSE j \in 1..Len(coll) :
             /\ DGet(coll[j], "Code") = related
             /\ \A k \in 1..(j - 1) : DGet(coll[k], "Code") # related
    ELSE IF coll = <<>> THEN 0 ELSE 1
\* Find that keeps the last match.
Find_last(coll, related) ==
    IF \E j \in 1..Len(coll) : DGet(coll[j], "Code") = related
    THEN CHOOSE j \in 1..Len(coll) :
             /\ DGet(coll[j], "Code") = related
             /\ \A k \in (j + 1)..Len(coll) : DGet(coll[k], "Code") # related
    ELSE 0

\* next(item for item in coll if item["Code"] == related): the position of
\* the first match, 0 for StopIteration.
Find(coll, related) ==
    IF \E j \in 1..Len(coll) : DGet(coll[j], "Code") = related
    THEN CHOOSE j \in 1..Len(coll) :
             /\ DGet(coll[j], "Code") = related
             /\ \A k \in 1..(j - 1) : DGet(coll[k], "Code") # related
    ELSE 0

\* for cls in Classifications: next(item for item in cls if item["Code"] == related)
\* iterates the keys of the first Classification: indexing a key, a str, by
\* "Code" raises TypeError; a Classification without keys ends the generator.
InnerLoop(classifications) ==
    IF classifications = <<>> THEN "none"
    ELSE IF DKeys(classifications[1]) = <<>> THEN "StopIteration"
    ELSE "TypeError"

Classifications == DGet(bsdd_data, "Classifications")[2]
Properties == DGet(bsdd_data, "Properties")[2]

\* The list the field of a parent refers to.
ListOf(h, parent, field) == h[DGet(parent, field)[2]]

\* The tree as a value: every reference replaced by the list it refers to.
RECURSIVE Resolve(_, _)
Resolve(v, h) ==
    IF IsRef(v) THEN List([i \in 1..Len(h[v[2]]) |-> Resolve(h[v[2]][i], h)])
    ELSE IF IsList(v) THEN List([i \in 1..Len(v[2]) |-> Resolve(v[2][i], h)])
    ELSE IF IsDict(v) THEN Dict([i \in 1..Len(v[2]) |-> <<v[2][i][1], Resolve(v[2][i][2], h)>>])
    ELSE v

\* json.dump accepts v: no datetime.time in it.
RECURSIVE Serializable(_)
Serializable(v) ==
    IF IsList(v) THEN \A i \in 1..Len(v[2]) : Serializable(v[2][i])
    ELSE IF IsDict(v) THEN \A i \in 1..Len(v[2]) : Serializable(v[2][i][2])
    ELSE v # Time

Init ==
    /\ IdleCell /\ IdleClean
    /\ argv \in {<<Script, Source>>, <<Script, Source, Dest, "True">>,
                 <<Script, Source, Dest, "False">>, <<Script, Source, "", "False">>}
    /\ fs \in {[p \in {Script, Source, Dest} |->
                   IF p = Script THEN k ELSE IF p = Source THEN Workbook ELSE Absent]
               : k \in {Workbook, PySource}}
    /\ pc = "argv" /\ error = NoError
    /\ EXCEL_PATH = "" /\ JSON_PATH = "" /\ WITH_NULLS = ""
    /\ excel = NoExcel /\ heap = TemplateHeap /\ bsdd_data = Dict(<<>>)
    /\ cls_props = <<>> /\ cls_rels = <<>> /\ prop_vals = <<>> /\ prop_rels = <<>>
    /\ idx = 0 /\ tree = None

\* An uncaught exception ends the run.
Raise(exception) == pc' = "failed" /\ error' = <<exception, pc>>

\* EXCEL_PATH = sys.argv[0]; JSON_PATH = sys.argv[1]; WITH_NULLS = sys.argv[2]
main_argv ==
    /\ pc = "argv"
    /\ IF Len(argv) < 3
       THEN Raise("IndexError") /\ UNCHANGED <<EXCEL_PATH, JSON_PATH, WITH_NULLS>>
       ELSE /\ EXCEL_PATH' = Argv(0) /\ JSON_PATH' = Argv(1) /\ WITH_NULLS' = Argv(2)
            /\ pc' = "load" /\ UNCHANGED error
    /\ UNCHANGED <<argv, fs, excel, heap, bsdd_data, cls_props, cls_rels, prop_vals,
                   prop_rels, idx, tree, cvars, vvars>>

\* excel = load_excel(EXCEL_PATH): the file must be a workbook.  The rows of
\* a sheet are drawn where excel2bsdd first reads the sheet.
load_excel ==
    /\ pc = "load"
    /\ IF EXCEL_PATH \in DOMAIN fs /\ fs[EXCEL_PATH] = Workbook
       THEN excel' = [NoExcel EXCEPT !.src = EXCEL_PATH] /\ pc' = "domain" /\ UNCHANGED error
       ELSE Raise("ValueError") /\ UNCHANGED excel
    /\ UNCHANGED <<argv, fs, EXCEL_PATH, JSON_PATH, WITH_NULLS, heap, bsdd_data, cls_props,
                   cls_rels, prop_vals, prop_rels, idx, tree, cvars, vvars>>

\* TakeFirst with [-1] for [0].
TakeLast(r) ==
    /\ heap' = r.heap
    /\ IF ~r.ok THEN Raise("LiteralError") /\ UNCHANGED bsdd_data
       ELSE IF r.jsons = <<>> THEN Raise("IndexError") /\ UNCHANGED bsdd_data
       ELSE bsdd_data' = r.jsons[Len(r.jsons)] /\ pc' = "classification" /\ UNCHANGED error

\* r = jsonify(excel['domain'], Domain); bsdd_data = r[0]
TakeFirst(r) ==
    /\ heap' = r.heap
    /\ IF ~r.ok THEN Raise("LiteralError") /\ UNCHANGED bsdd_data
       ELSE IF r.jsons = <<>> THEN Raise("IndexError") /\ UNCHANGED bsdd_data
       ELSE bsdd_data' = r.jsons[1] /\ pc' = "classification" /\ UNCHANGED error

\* bsdd_data = jsonify(excel['domain'], Domain)[0]
map_domain ==
    /\ pc = "domain"
    /\ \E rows \in DomainSheets :
        /\ excel' = [excel EXCEPT !.domain = rows]
        /\ TakeFirst(jsonify(rows, Domain, heap))
    /\ UNCHANGED <<argv, fs, EXCEL_PATH, JSON_PATH, WITH_NULLS, cls_props, cls_rels,
                   prop_vals, prop_rels, idx, tree, cvars, vvars>>

\* bsdd_data[key] = r, the result of jsonify
Attach(r, key, next) ==
    /\ heap' = r.heap
    /\ IF ~r.ok THEN Raise("LiteralError") /\ UNCHANGED bsdd_data
       ELSE /\ bsdd_data' = DSet(bsdd_data, key, List(r.jsons))
            /\ pc' = next /\ UNCHANGED error

\* bsdd_data['Classifications'] = jsonify(excel['classification'], Classification)
map_classifications ==
    /\ pc = "classification"
    /\ \E rows \in ClassificationSheets(MaxParentRows) :
        /\ excel' = [excel EXCEPT !.classification = rows]
        /\ Attach(jsonify(rows, Classification, heap), "Classifications", "material")
    /\ UNCHANGED <<argv, fs, EXCEL_PATH, JSON_PATH, WITH_NULLS, cls_props, cls_rels,
                   prop_vals, prop_rels, idx, tree, cvars, vvars>>

\* bsdd_data['Materials'] = jsonify(excel['material'], Material)
map_materials ==
    /\ pc = "material"
    /\ \E rows \in MaterialSheets(MaxParentRows - Len(excel.classification)) :
        /\ excel' = [excel EXCEPT !.material = rows]
        /\ Attach(jsonify(rows, Material, heap), "Materials", "property")
    /\ UNCHANGED <<argv, fs, EXCEL_PATH, JSON_PATH, WITH_NULLS, cls_props, cls_rels,
                   prop_vals, prop_rels, idx, tree, cvars, vvars>>

\* bsdd_data['Properties'] = jsonify(excel['property'], Property)
map_properties ==
    /\ pc = "property"
    /\ \E rows \in PropertySheets(ParentRowsLeft) :
        /\ excel' = [excel EXCEPT !.property = rows]
        /\ Attach(jsonify(rows, Property, heap), "Properties", "cls_props")
    /\ UNCHANGED <<argv, fs, EXCEL_PATH, JSON_PATH, WITH_NULLS, cls_props, cls_rels,
                   prop_vals, prop_rels, idx, tree, cvars, vvars>>

\* children = r, the result of jsonify, before the loop over them
MapChildren(r, children, next) ==
    /\ heap' = r.heap
    /\ IF ~r.ok THEN Raise("LiteralError") /\ UNCHANGED <<children, idx>>
       ELSE children' = r.jsons /\ idx' = 1 /\ pc' = next /\ UNCHANGED error

\* AppendTo with insert(0, child) for append(child).
AppendTo_front(parents, j, listField, child, after) ==
    IF j = 0
    THEN Raise("StopIteration") /\ UNCHANGED <<heap, idx>>
    ELSE /\ heap' = [heap EXCEPT ![DGet(parents[j], listField)[2]] = <<child>> \o @]
         /\ IF after # "none"
            THEN Raise(after) /\ UNCHANGED idx
            ELSE idx' = idx + 1 /\ UNCHANGED <<pc, error>>

\* next(...)[listField].append(child), j the position next() found; `after`
\* is what the rest of the loop body raises once the child is appended.
AppendTo(parents, j, listField, child, after) ==
    IF j = 0
    THEN Raise("StopIteration") /\ UNCHANGED <<heap, idx>>
    ELSE /\ heap' = [heap EXCEPT ![DGet(parents[j], listField)[2]] = Append(@, child)]
         /\ IF after # "none"
            THEN Raise(after) /\ UNCHANGED idx
            ELSE idx' = idx + 1 /\ UNCHANGED <<pc, error>>

\* One pass of a linking loop: read the origin code, pop it, find the
\* parent and append the child to its list.
Link(children, originField, parents, listField, after) ==
    /\ children' = [children EXCEPT ![idx] = DPop(children[idx], originField)]
    /\ AppendTo(parents, Find(parents, DGet(children[idx], originField)), listField,
                DPop(children[idx], originField), after)

\* cls_props = jsonify(excel['classificationproperty'], ClassificationProperty)
map_cls_props ==
    /\ pc = "cls_props"
    /\ \E rows \in ChildSheets("(Origin Classification Code)", "PropertyCode",
                               ClsCodes, MaxChildRows) :
        /\ excel' = [excel EXCEPT !.classificationproperty = rows]
        /\ MapChildren(jsonify(rows, ClassificationProperty, heap), cls_props, "cls_prop_loop")
    /\ UNCHANGED <<argv, fs, EXCEL_PATH, JSON_PATH, WITH_NULLS, bsdd_data, cls_rels,
                   prop_vals, prop_rels, tree, cvars, vvars>>

\* for cls_prop in cls_props: ...
link_cls_prop ==
    /\ pc = "cls_prop_loop" /\ idx <= Len(cls_props)
    /\ Link(cls_props, "(Origin Classification Code)", Classifications,
            "ClassificationProperties", "none")
    /\ UNCHANGED <<argv, fs, EXCEL_PATH, JSON_PATH, WITH_NULLS, excel, bsdd_data, cls_rels,
                   prop_vals, prop_rels, tree, cvars, vvars>>

\* cls_rels = jsonify(excel['classificationrelation'], ClassificationRelation)
map_cls_rels ==
    /\ pc = "cls_prop_loop" /\ idx > Len(cls_props)
    /\ \E rows \in ChildSheets("(Origin Classification Code)", "RelationType", ClsCodes,
                               MaxChildRows - Len(excel.classificationproperty)) :
        /\ excel' = [excel EXCEPT !.classificationrelation = rows]
        /\ MapChildren(jsonify(rows, ClassificationRelation, heap), cls_rels, "cls_rel_loop")
    /\ UNCHANGED <<argv, fs, EXCEL_PATH, JSON_PATH, WITH_NULLS, bsdd_data, cls_props,
                   prop_vals, prop_rels, tree, cvars, vvars>>

\* for cls_rel in cls_rels: ...
link_cls_rel ==
    /\ pc = "cls_rel_loop" /\ idx <= Len(cls_rels)
    /\ Link(cls_rels, "(Origin Classification Code)", Classifications,
            "ClassificationRelations", "none")
    /\ UNCHANGED <<argv, fs, EXCEL_PATH, JSON_PATH, WITH_NULLS, excel, bsdd_data, cls_props,
                   prop_vals, prop_rels, tree, cvars, vvars>>

\* prop_vals = jsonify(excel['propertyvalue'], AllowedValue)
map_prop_vals ==
    /\ pc = "cls_rel_loop" /\ idx > Len(cls_rels)
    /\ \E rows \in ChildSheets("(Origin Property Code OR ClassificationProperty Code)",
                               "Value", PropCodes,
                               MaxChildRows - (Len(excel.classificationproperty)
                                               + Len(excel.classificationrelation))) :
        /\ excel' = [excel EXCEPT !.propertyvalue = rows]
        /\ MapChildren(jsonify(rows, AllowedValue, heap), prop_vals, "prop_val_loop")
    /\ UNCHANGED <<argv, fs, EXCEL_PATH, JSON_PATH, WITH_NULLS, bsdd_data, cls_props,
                   cls_rels, prop_rels, tree, cvars, vvars>>

\* for prop_val in prop_vals: ... with the inner loop over the Classifications
link_prop_val ==
    /\ pc = "prop_val_loop" /\ idx <= Len(prop_vals)
    /\ Link(prop_vals, "(Origin Property Code OR ClassificationProperty Code)", Properties,
            "AllowedValues", InnerLoop(Classifications))
    /\ UNCHANGED <<argv, fs, EXCEL_PATH, JSON_PATH, WITH_NULLS, excel, bsdd_data, cls_props,
                   cls_rels, prop_rels, tree, cvars, vvars>>

\* prop_rels = jsonify(excel['propertyrelation'], PropertyRelation)
map_prop_rels ==
    /\ pc = "prop_val_loop" /\ idx > Len(prop_vals)
    /\ \E rows \in ChildSheets("(Origin Property)", "RelationType", PropCodes,
                               ChildRowsLeft) :
        /\ excel' = [excel EXCEPT !.propertyrelation = rows]
        /\ MapChildren(jsonify(rows, PropertyRelation, heap), prop_rels, "prop_rel_loop")
    /\ UNCHANGED <<argv, fs, EXCEL_PATH, JSON_PATH, WITH_NULLS, bsdd_data, cls_props,
                   cls_rels, prop_vals, tree, cvars, vvars>>

\* for prop_rel in prop_rels: ...
link_prop_rel ==
    /\ pc = "prop_rel_loop" /\ idx <= Len(prop_rels)
    /\ Link(prop_rels, "(Origin Property)", Properties, "PropertyRelations", "none")
    /\ UNCHANGED <<argv, fs, EXCEL_PATH, JSON_PATH, WITH_NULLS, excel, bsdd_data, cls_props,
                   cls_rels, prop_vals, tree, cvars, vvars>>

\* return bsdd_data, received by __main__
return_tree ==
    /\ pc = "prop_rel_loop" /\ idx > Len(prop_rels)
    /\ tree' = Resolve(bsdd_data, heap)
    /\ pc' = "prune"
    /\ UNCHANGED <<argv, fs, error, EXCEL_PATH, JSON_PATH, WITH_NULLS, excel, heap,
                   bsdd_data, cls_props, cls_rels, prop_vals, prop_rels, idx, cvars, vvars>>

\* if not WITH_NULLS: bsdd_data = clean_nones(bsdd_data)
main_prune ==
    /\ pc = "prune"
    /\ tree' = IF ~Truthy(WITH_NULLS) THEN clean_nones(tree) ELSE tree
    /\ pc' = "open"
    /\ UNCHANGED <<argv, fs, error, EXCEL_PATH, JSON_PATH, WITH_NULLS, excel, heap,
                   bsdd_data, cls_props, cls_rels, prop_vals, prop_rels, idx, cvars, vvars>>

\* resultant_file = open(JSON_PATH, "w"): the file is created or truncated
main_open ==
    /\ pc = "open"
    /\ IF JSON_PATH \in DOMAIN fs
       THEN fs' = [fs EXCEPT ![JSON_PATH] = Empty] /\ pc' = "dump" /\ UNCHANGED error
       ELSE Raise("FileNotFoundError") /\ UNCHANGED fs
    /\ UNCHANGED <<argv, EXCEL_PATH, JSON_PATH, WITH_NULLS, excel, heap, bsdd_data,
                   cls_props, cls_rels, prop_vals, prop_rels, idx, tree, cvars, vvars>>

\* json.dump(bsdd_data, resultant_file, indent = 2): the document is written
\* piece by piece; a value json cannot encode raises TypeError and leaves
\* what was written (nothing, or a prefix of the document).
main_dump ==
    /\ pc = "dump"
    /\ IF Serializable(tree)
       THEN fs' = [fs EXCEPT ![JSON_PATH] = Json(tree)] /\ pc' = "close" /\ UNCHANGED error
       ELSE /\ \E left \in {Empty, Partial} : fs' = [fs EXCEPT ![JSON_PATH] = left]
            /\ Raise("TypeError")
    /\ UNCHANGED <<argv, EXCEL_PATH, JSON_PATH, WITH_NULLS, excel, heap, bsdd_data,
                   cls_props, cls_rels, prop_vals, prop_rels, idx, tree, cvars, vvars>>

\* resultant_file.close()
main_close ==
    /\ pc = "close"
    /\ pc' = "done"
    /\ UNCHANGED <<argv, fs, error, EXCEL_PATH, JSON_PATH, WITH_NULLS, excel, heap,
                   bsdd_data, cls_props, cls_rels, prop_vals, prop_rels, idx, tree,
                   cvars, vvars>>

Next ==
    \/ main_argv \/ load_excel \/ map_domain \/ map_classifications \/ map_materials
    \/ map_properties \/ map_cls_props \/ link_cls_prop \/ map_cls_rels \/ link_cls_rel
    \/ map_prop_vals \/ link_prop_val \/ map_prop_rels \/ link_prop_rel \/ return_tree
    \/ main_prune \/ main_open \/ main_dump \/ main_close
Spec == Init /\ [][Next]_vars

\* ------------------------------------------------ jsonify on a single cell
Alphabet == {"[", "]", "1", ",", " ", "m"}
LengthM == <<"L", "e", "n", "g", "t", "h", " ", "[", "m", "]">>
OneTwoThree == <<"[", "1", ",", "2", ",", "3", "]">>
CellValues ==
    {Str(s) : s \in SeqsUpTo(Alphabet, MaxStrLen) \cup {LengthM, OneTwoThree}}
        \cup {NaN, Timestamp, Time, Num(1)}

InitCell ==
    /\ IdlePipeline /\ IdleClean
    /\ cell_df \in {<< << <<"Value", c>> >> >> : c \in CellValues}
    /\ cell_out = [ok |-> TRUE, jsons |-> <<>>]
    /\ cell_pc = "start"

jsonify_cell ==
    /\ cell_pc = "start"
    /\ LET r == jsonify(cell_df, AllowedValue, TemplateHeap)
       IN  cell_out' = [ok |-> r.ok, jsons |-> r.jsons]
    /\ cell_pc' = "done"
    /\ UNCHANGED <<cell_df, pvars, vvars>>

NextCell == jsonify_cell
SpecCell == InitCell /\ [][NextCell]_vars

\* ------------------------------------------------ clean_nones on one value
Scalars == {None, Num(1)}
Keys == {"A", "B"}
\* Injective key sequences of length m.
KeySeqs(m) == {k \in [1..m -> Keys] : \A i, j \in 1..m : i # j => k[i] # k[j]}

\* Nested values of exactly n nodes, and the sequences of values of n nodes.
RECURSIVE ValuesOfSize(_), SeqsOfSize(_)
ValuesOfSize(n) ==
    IF n = 0 THEN {}
    ELSE IF n = 1 THEN Scalars \cup {List(<<>>), Dict(<<>>)}
    ELSE LET ss == SeqsOfSize(n - 1)
         IN  {List(s) : s \in ss}
                 \cup UNION {{Dict([i \in 1..Len(s) |-> <<k[i], s[i]>>]) : k \in KeySeqs(Len(s))}
                             : s \in ss}
SeqsOfSize(n) ==
    IF n = 0 THEN {<<>>}
    ELSE UNION {{<<v>> \o rest : v \in ValuesOfSize(j), rest \in SeqsOfSize(n - j)}
                : j \in 1..n}

Example == Dict(<< <<"A", None>>, <<"B", List(<<Num(1), None, Num(2)>>)>> >>)
ExamplePruned == Dict(<< <<"B", List(<<Num(1), Num(2)>>)>> >>)

InitClean ==
    /\ IdlePipeline /\ IdleCell
    /\ value \in UNION {ValuesOfSize(n) : n \in 1..MaxNodes} \cup {Example}
    /\ pruned = None /\ pruned2 = None
    /\ clean_pc = "start"

prune_once ==
    /\ clean_pc = "start"
    /\ pruned' = clean_nones(value)
    /\ clean_pc' = "once"
    /\ UNCHANGED <<value, pruned2, pvars, cvars>>

prune_twice ==
    /\ clean_pc = "once"
    /\ pruned2' = clean_nones(pruned)
    /\ clean_pc' = "twice"
    /\ UNCHANGED <<value, pruned, pvars, cvars>>

NextClean == prune_once \/ prune_twice
SpecClean == InitClean /\ [][NextClean]_vars

\* ------------------------------------------------------------- properties
LoopPcs == <<"cls_prop_loop", "cls_rel_loop", "prop_val_loop", "prop_rel_loop">>
ListFields ==
    <<"ClassificationProperties", "ClassificationRelations", "AllowedValues",
      "PropertyRelations">>
\* Where the run is, or where it failed.
At == IF pc = "failed" THEN error[2] ELSE pc
\* 0 before the linking loops, k in the k-th loop, 5 after excel2bsdd returned.
Rank(p) ==
    CASE p \in {"idle", "argv", "load", "domain", "classification", "material",
                "property", "cls_props"} -> 0
      [] p = "cls_prop_loop" -> 1
      [] p = "cls_rel_loop" -> 2
      [] p = "prop_val_loop" -> 3
      [] p = "prop_rel_loop" -> 4
      [] OTHER -> 5
\* The k-th child sheet and the sheet of its parents, as read from the workbook.
Sheet(k) ==
    CASE k = 1 -> excel.classificationproperty
      [] k = 2 -> excel.classificationrelation
      [] k = 3 -> excel.propertyvalue
      [] k = 4 -> excel.propertyrelation
ParentSheet(k) == IF k <= 2 THEN excel.classification ELSE excel.property
\* The origin code of row i of child sheet k, and the rows of the parent
\* sheet whose Code equals it.
Origin(k, i) == Sheet(k)[i][1][2]
Matches(k, i) == {j \in 1..Len(ParentSheet(k)) : ParentSheet(k)[j][1][2] = Origin(k, i)}
\* Row i of child sheet k as an object, without its origin column.
MappedChild(k, i) == Dict(Tail(Sheet(k)[i]))
\* The child list of the j-th parent that loop k appends to.
ChildList(k, j) ==
    ListOf(heap, (IF k <= 2 THEN Classifications ELSE Properties)[j], ListFields[k])
\* The rows of child sheet k whose pass through loop k ended without an
\* exception, and those whose append was executed.
Passed(k) ==
    IF Rank(At) > k THEN Len(Sheet(k)) ELSE IF Rank(At) = k THEN idx - 1 ELSE 0
Appended(k) ==
    IF k = 3 /\ pc = "failed" /\ error = <<"TypeError", "prop_val_loop">>
    THEN idx ELSE Passed(k)
\* excel2bsdd has returned its tree.
Returned == Rank(At) = 5

\* C1: in every linking loop, a child row whose origin code is the Code of
\* no row of its parent sheet makes the pass over that child raise
\* StopIteration: the run ends there, nothing is appended and no tree is
\* returned, however many children were linked before.
C1_Step ==
    \A k \in 1..4 :
        (pc = LoopPcs[k] /\ idx <= Len(Sheet(k)) /\ Matches(k, idx) = {})
            => /\ pc' = "failed"
               /\ error' = <<"StopIteration", LoopPcs[k]>>
               /\ heap' = heap
               /\ tree' = None
C1_UnmatchedChildIsFatal == [][C1_Step]_vars
\* The second ClassificationProperty row has no parent, the first was linked.
C1_Witness ==
    /\ pc = "failed" /\ error = <<"StopIteration", "cls_prop_loop">> /\ idx = 2
    /\ Matches(1, 2) = {} /\ Matches(1, 1) # {}
    /\ \E j \in 1..Len(Classifications) : Len(ChildList(1, j)) = 1

\* C2 as claimed: a child row whose origin code is the Code of more than
\* one parent row never gets through its pass: linking it is fatal.
C2_AmbiguousIsFatal ==
    \A k \in 1..4 : \A i \in 1..Passed(k) : Cardinality(Matches(k, i)) <= 1
\* C2 as amended: a child row whose append was executed sits in the child
\* list of the first parent row whose Code equals its origin code, and in
\* the list of no other parent; repeated Codes raise nothing.
C2_FirstMatchWins ==
    \A k \in 1..4 : \A i \in 1..Appended(k) :
        /\ Matches(k, i) # {}
        /\ \A j \in 1..Len(ParentSheet(k)) :
            (\E n \in 1..Len(ChildList(k, j)) : ChildList(k, j)[n] = MappedChild(k, i))
                <=> (j \in Matches(k, i) /\ \A m \in Matches(k, i) : j <= m)
\* A ClassificationProperty row with two matching Classifications was linked.
C2_Witness ==
    /\ Returned /\ pc = "done"
    /\ \E i \in 1..Len(Sheet(1)) : Cardinality(Matches(1, i)) = 2

\* C3: once excel2bsdd has returned, if the Classification Codes are
\* pairwise distinct, the ClassificationProperties of every Classification
\* are the ClassificationProperty rows with its Code as origin, in sheet
\* order and without the origin field, so every row is in exactly one list.
RowsFor(k, code) == SelectSeq(Sheet(k), LAMBDA row : row[1][2] = code)
DistinctCodes(sheet) ==
    \A i, j \in 1..Len(sheet) : i # j => sheet[i][1][2] # sheet[j][1][2]
RECURSIVE SumLen(_, _)
SumLen(k, j) == IF j = 0 THEN 0 ELSE Len(ChildList(k, j)) + SumLen(k, j - 1)
C3_ClassificationProperties ==
    (Returned /\ DistinctCodes(excel.classification)) =>
        /\ \A j \in 1..Len(Classifications) :
            LET rows == RowsFor(1, DGet(Classifications[j], "Code"))
            IN  /\ ChildList(1, j) = [n \in 1..Len(rows) |-> Dict(Tail(rows[n]))]
                /\ \A n \in 1..Len(ChildList(1, j)) :
                    ~DHas(ChildList(1, j)[n], "(Origin Classification Code)")
        /\ SumLen(1, Len(Classifications)) = Len(Sheet(1))
\* Classification A1 with two ClassificationProperty rows of origin A1.
C3_Witness ==
    /\ pc = "done" /\ DistinctCodes(excel.classification)
    /\ Len(Sheet(1)) = 2
    /\ \E j \in 1..Len(Classifications) :
        /\ DGet(Classifications[j], "Code") = Str(<<"A", "1">>)
        /\ Len(ChildList(1, j)) = 2

\* C4 as claimed: with at least one Classification row, the pass over a
\* PropertyValue row whose origin code is the Code of exactly one Property
\* raises nothing.
C4_AllowedValueLinks ==
    ~(/\ pc = "failed" /\ error[2] = "prop_val_loop"
      /\ Len(excel.classification) >= 1
      /\ Cardinality(Matches(3, idx)) = 1)

\* The Domain sheet has been mapped, or mapping it raised.
DomainDone == At \notin {"idle", "argv", "load"} /\ pc # "domain"
\* C5 as claimed: the run goes on after the Domain sheet only if the sheet
\* has exactly one row.
C5_ExactlyOneRow ==
    (DomainDone /\ ~(pc = "failed" /\ error[2] = "domain")) => Len(excel.domain) = 1
\* C5 as amended: a Domain sheet without rows is fatal (IndexError); with
\* one row or more, the first row mapped is the root of the tree and the
\* other rows are dropped; the columns the template lacks are dropped too.
C5_FirstRowIsRoot ==
    DomainDone =>
        /\ Len(excel.domain) = 0 => (pc = "failed" /\ error = <<"IndexError", "domain">>)
        /\ (Len(excel.domain) >= 1 /\ ~(pc = "failed" /\ error[2] = "domain")) =>
            /\ DGet(bsdd_data, "DomainCode") = excel.domain[1][1][2]
            /\ DGet(bsdd_data, "DomainName") = ReplaceNaN(excel.domain[1][2][2])
            /\ ~DHas(bsdd_data, "Remarks")
\* A run with two Domain rows that went through.
C5_Witness == pc = "done" /\ Len(excel.domain) = 2

\* C6 as claimed: in a run that failed, no file is left truncated or with
\* part of the document.
C6_NoPartialOutput ==
    pc = "failed" => \A p \in DOMAIN fs : fs[p] \notin {Empty, Partial}

\* C7 as claimed: invoked as script source destination flag, the run reads
\* the workbook at the source path, writes the document to the destination
\* path, and writes the pruned tree exactly when the flag does not ask for
\* nulls.
C7_Invocation ==
    (pc = "done" /\ Len(argv) = 4) =>
        /\ excel.src = argv[2]
        /\ argv[3] \in DOMAIN fs
        /\ fs[argv[3]] = Json(IF argv[4] \in {"False", "0"}
                              THEN clean_nones(Resolve(bsdd_data, heap))
                              ELSE Resolve(bsdd_data, heap))

\* The document of a value: its brackets, keys and scalars in order.
RECURSIVE Ser(_)
Ser(v) ==
    IF IsList(v)
    THEN << <<"open", "list">> >> \o Concat([i \in 1..Len(v[2]) |-> Ser(v[2][i])])
             \o << <<"close", "list">> >>
    ELSE IF IsDict(v)
    THEN << <<"open", "dict">> >>
             \o Concat([i \in 1..Len(v[2]) |-> << <<"key", v[2][i][1]>> >> \o Ser(v[2][i][2])])
             \o << <<"close", "dict">> >>
    ELSE <<v>>
\* A document without its nulls and without the keys of its nulls.
RECURSIVE Strip(_)
Strip(ts) ==
    IF ts = <<>> THEN <<>>
    ELSE IF ts[1] = None THEN Strip(Tail(ts))
    ELSE IF ts[1][1] = "key" /\ Len(ts) >= 2 /\ ts[2] = None THEN Strip(Tail(Tail(ts)))
    ELSE <<ts[1]>> \o Strip(Tail(ts))

\* C8: clean_nones(v) is v without the null elements of its lists and the
\* null-valued keys of its objects, at every depth: what is left keeps its
\* order, and every container stays, empty or not; a scalar is returned as
\* it is.  Pruning the result again changes nothing.
C8_CleanNones ==
    /\ clean_pc \in {"once", "twice"} =>
        IF IsList(value) \/ IsDict(value)
        THEN Ser(pruned) = Strip(Ser(value))
        ELSE pruned = value
    /\ clean_pc = "twice" => pruned2 = pruned
\* {"A": null, "B": [1, null, 2]} became {"B": [1, 2]}.
C8_Witness == clean_pc = "twice" /\ value = Example /\ pruned = ExamplePruned

\* text.strip()
RECURSIVE Trim(_)
Trim(s) ==
    IF s = <<>> THEN s
    ELSE IF s[1] \in Spaces THEN Trim(Tail(s))
    ELSE IF s[Len(s)] \in Spaces THEN Trim(SubSeq(s, 1, Len(s) - 1))
    ELSE s
Enclosed(s) == Len(Trim(s)) >= 2 /\ Trim(s)[1] = "[" /\ Trim(s)[Len(Trim(s))] = "]"
\* C9 as claimed: a string cell of a recognized column is parsed exactly
\* when its trimmed text is enclosed in square brackets (the run fails or
\* the field is the list); any other string cell is copied as it is and
\* raises nothing.
C9_ListLiteralCells ==
    (cell_pc = "done" /\ IsStr(cell_df[1][1][2])) =>
        IF Enclosed(cell_df[1][1][2][2])
        THEN cell_out.ok => IsList(DGet(cell_out.jsons[1], "Value"))
        ELSE cell_out.ok /\ DGet(cell_out.jsons[1], "Value") = cell_df[1][1][2]

\* The child-list fields of the objects of the tree, and of the templates.
ClassList == IF DHas(bsdd_data, "Classifications") THEN Classifications ELSE <<>>
PropList == IF DHas(bsdd_data, "Properties") THEN Properties ELSE <<>>
Slots ==
    {<<"Classification", j, f>> :
        j \in 1..Len(ClassList),
        f \in {"ClassificationProperties", "ClassificationRelations", "AllowedValues"}}
    \cup {<<"Property", j, f>> :
            j \in 1..Len(PropList), f \in {"AllowedValues", "PropertyRelations"}}
    \cup {<<"Template", a, "">> : a \in TemplateRefs}
SlotRef(s) ==
    IF s[1] = "Template" THEN s[2]
    ELSE DGet((IF s[1] = "Classification" THEN ClassList ELSE PropList)[s[2]], s[3])[2]
\* The first parent row whose Code is the origin code of row i of sheet k.
FirstMatch(k, i) == CHOOSE j \in Matches(k, i) : \A m \in Matches(k, i) : j <= m
\* C10: every step changes at most one child list of the tree, never a
\* list of a template, and a step of a linking loop that appends changes
\* the list of the parent found and no other; the lists of the templates
\* stay empty.
C10_Step ==
    LET changed == {s \in Slots : heap'[SlotRef(s)] # heap[SlotRef(s)]}
    IN  /\ Cardinality(changed) <= 1
        /\ \A a \in TemplateRefs : heap'[a] = <<>>
        /\ \A k \in 1..4 :
            (pc = LoopPcs[k] /\ heap' # heap) =>
                changed = {<<IF k <= 2 THEN "Classification" ELSE "Property",
                             FirstMatch(k, idx), ListFields[k]>>}
C10_FreshContainers == [][C10_Step]_vars
\* Two Classifications, a child in the list of one and none in the other's.
C10_Witness ==
    /\ pc = "done"
    /\ \E i, j \in 1..Len(ClassList) :
        ChildList(1, i) # <<>> /\ ChildList(1, j) = <<>>

====
